---- MODULE Spec2Model ----
(***************************************************************************)
(* Model of src/app.py: the report extraction pipeline                     *)
(* (extract_report_data, clean_json_string, validate_report_data) and the  *)
(* /submit request handler.                                                *)
(*                                                                         *)
(* Text is a sequence of lexemes.  A lexeme is one punctuation character,  *)
(* one whitespace character, or one maximal run of \w characters (a word); *)
(* a number with a sign or a fraction is one lexeme that is not a word.    *)
(* The regular expressions and the JSON decoder of the source are          *)
(* translated to operators over such sequences.  Replies never put two     *)
(* words next to each other, and a backslash is followed only by a quote,  *)
(* a backslash, a slash or the word "n", so a word is matched as a whole.  *)
(***************************************************************************)
EXTENDS Integers, Sequences, FiniteSets, TLC

(* ---------------------------------------------------------------------- *)
(* Lexemes                                                                 *)
(* ---------------------------------------------------------------------- *)
QUOTE == "\""
BSLASH == "\\"
NL == "\n"
SP == " "
SENTINEL == "%%QUOTE%%"

WS == {SP, NL}
Punct == {"{", "}", "[", "]", ",", ":", ";", "=", "/", "*", QUOTE, BSLASH, "'"}

\* value of a numeric lexeme, in tenths
Tenths == [x \in {"0", "59", "60", "70", "80", "100", "101", "-1", "59.5", "60.5", "100.5"} |->
            CASE x = "0" -> 0
              [] x = "59" -> 590
              [] x = "60" -> 600
              [] x = "70" -> 700
              [] x = "80" -> 800
              [] x = "100" -> 1000
              [] x = "101" -> 1010
              [] x = "-1" -> -10
              [] x = "59.5" -> 595
              [] x = "60.5" -> 605
              [] x = "100.5" -> 1005]
NumLex == DOMAIN Tenths
\* numeric lexemes with a fraction, and those with a sign
FracLex == {"59.5", "60.5", "100.5"}
SignedLex == {"-1"}
\* json.loads also accepts these as floats
NanLex == {"NaN"}

\* \w+ : a lexeme made of word characters only
IsWord(x) == x \notin (Punct \cup WS \cup FracLex \cup SignedLex \cup {SENTINEL})

(* ---------------------------------------------------------------------- *)
(* Python values                                                           *)
(* ---------------------------------------------------------------------- *)
PyNone == [t |-> "None", s |-> <<>>, items |-> <<>>]
PyStr(s) == [t |-> "str", s |-> s, items |-> <<>>]
PyNum(x) == [t |-> IF x \in FracLex \cup NanLex THEN "float" ELSE "int", s |-> <<x>>, items |-> <<>>]
PyBool(x) == [t |-> "bool", s |-> <<x>>, items |-> <<>>]
PyList(items) == [t |-> "list", s |-> <<>>, items |-> items]
PyDict(items) == [t |-> "dict", s |-> <<>>, items |-> items]

\* dict[k] = v : a repeated key keeps its position and takes the new value
RECURSIVE DictSet(_, _, _)
DictSet(items, k, v) ==
  IF items = <<>> THEN <<[k |-> k, v |-> v]>>
  ELSE IF Head(items).k = k THEN <<[k |-> k, v |-> v]>> \o Tail(items)
  ELSE <<Head(items)>> \o DictSet(Tail(items), k, v)

HasKey(d, k) == \E i \in 1..Len(d.items) : d.items[i].k = k
Get(d, k) == d.items[CHOOSE i \in 1..Len(d.items) : d.items[i].k = k].v

(* ---------------------------------------------------------------------- *)
(* json.loads                                                              *)
(* ---------------------------------------------------------------------- *)
Fail == [ok |-> FALSE, v |-> PyNone, p |-> 0]
Ok(v, p) == [ok |-> TRUE, v |-> v, p |-> p]

RECURSIVE SkipWS(_, _)
SkipWS(s, p) == IF p <= Len(s) /\ s[p] \in WS THEN SkipWS(s, p + 1) ELSE p

At(s, p) == IF p >= 1 /\ p <= Len(s) THEN s[p] ELSE "<end>"

\* the least element of a set of positions, or 0
Least(S) == IF S = {} THEN 0 ELSE CHOOSE j \in S : \A k \in S : j <= k

\* the number of backslashes that immediately precede position p
RECURSIVE BackslashRun(_, _)
BackslashRun(s, p) == IF At(s, p - 1) = BSLASH THEN 1 + BackslashRun(s, p - 1) ELSE 0

\* inside a string literal: position p starts an escape sequence / is its second character
EscStart(s, p) == s[p] = BSLASH /\ BackslashRun(s, p) % 2 = 0
Escaped(s, p) == p > 1 /\ s[p - 1] = BSLASH /\ EscStart(s, p - 1)

\* what one position of the input contributes to the output of a rewriting pass
Emit(pass, s, p) ==
  CASE pass = "unescape" ->     \* py_scanstring: the character an escape stands for
         IF EscStart(s, p) THEN <<>>
         ELSE IF Escaped(s, p) THEN <<IF s[p] = "n" THEN NL ELSE s[p]>>
         ELSE <<s[p]>>
    [] pass = "protect" ->      \* s.replace(r'\"', '%%QUOTE%%')
         IF s[p] = BSLASH /\ At(s, p + 1) = QUOTE THEN <<SENTINEL>>
         ELSE IF s[p] = QUOTE /\ At(s, p - 1) = BSLASH THEN <<>>
         ELSE <<s[p]>>
    [] pass = "escape" ->       \* s.replace('"', r'\"')
         IF s[p] = QUOTE THEN <<BSLASH, QUOTE>> ELSE <<s[p]>>
    [] pass = "restore" ->      \* s.replace('%%QUOTE%%', r'\"')
         IF s[p] = SENTINEL THEN <<BSLASH, QUOTE>> ELSE <<s[p]>>

\* the concatenation of Emit over positions lo..hi
RECURSIVE Rewrite(_, _, _, _)
Rewrite(pass, s, lo, hi) ==
  IF lo > hi THEN <<>>
  ELSE IF lo = hi THEN Emit(pass, s, lo)
  ELSE LET m == (lo + hi) \div 2 IN Rewrite(pass, s, lo, m) \o Rewrite(pass, s, m + 1, hi)

\* py_scanstring with strict=True; p is the position after the opening quote.
\* The literal ends at the first quote that is not escaped; a raw control
\* character or an invalid escape before it is an error.
ScanString(s, p) ==
  LET e == Least({j \in p..Len(s) : s[j] = QUOTE /\ ~Escaped(s, j)}) IN
  IF e = 0 THEN Fail
  ELSE IF \E k \in p..(e - 1) :
            \/ s[k] = NL
            \/ Escaped(s, k) /\ s[k] \notin {QUOTE, BSLASH, "/", "n"}
       THEN Fail
       ELSE Ok(PyStr(Rewrite("unescape", s, p, e - 1)), e + 1)

RECURSIVE ParseValue(_, _)
RECURSIVE ParseMembers(_, _, _)
RECURSIVE ParseElements(_, _, _)

\* JSONObject: p is at the opening quote of a key
ParseMembers(s, p, acc) ==
  IF p > Len(s) \/ s[p] # QUOTE THEN Fail
  ELSE LET k == ScanString(s, p + 1) IN
       IF ~k.ok THEN Fail
       ELSE LET c == SkipWS(s, k.p) IN
            IF c > Len(s) \/ s[c] # ":" THEN Fail
            ELSE LET v == ParseValue(s, SkipWS(s, c + 1)) IN
                 IF ~v.ok THEN Fail
                 ELSE LET e == SkipWS(s, v.p)
                          acc2 == DictSet(acc, k.v.s, v.v) IN
                      IF e > Len(s) THEN Fail
                      ELSE IF s[e] = "}" THEN Ok(PyDict(acc2), e + 1)
                      ELSE IF s[e] = "," THEN ParseMembers(s, SkipWS(s, e + 1), acc2)
                      ELSE Fail

\* JSONArray: p is at the start of an element
ParseElements(s, p, acc) ==
  LET v == ParseValue(s, p) IN
  IF ~v.ok THEN Fail
  ELSE LET e == SkipWS(s, v.p)
           acc2 == Append(acc, v.v) IN
       IF e > Len(s) THEN Fail
       ELSE IF s[e] = "]" THEN Ok(PyList(acc2), e + 1)
       ELSE IF s[e] = "," THEN ParseElements(s, SkipWS(s, e + 1), acc2)
       ELSE Fail

\* scan_once
ParseValue(s, p) ==
  IF p > Len(s) THEN Fail
  ELSE IF s[p] = QUOTE THEN ScanString(s, p + 1)
  ELSE IF s[p] = "{" THEN
         LET q == SkipWS(s, p + 1) IN
         IF q <= Len(s) /\ s[q] = "}" THEN Ok(PyDict(<<>>), q + 1)
         ELSE ParseMembers(s, q, <<>>)
  ELSE IF s[p] = "[" THEN
         LET q == SkipWS(s, p + 1) IN
         IF q <= Len(s) /\ s[q] = "]" THEN Ok(PyList(<<>>), q + 1)
         ELSE ParseElements(s, q, <<>>)
  ELSE IF s[p] = "null" THEN Ok(PyNone, p + 1)
  ELSE IF s[p] \in {"true", "false"} THEN Ok(PyBool(s[p]), p + 1)
  ELSE IF s[p] \in NumLex \cup NanLex THEN Ok(PyNum(s[p]), p + 1)
  ELSE Fail

\* json.loads(s): [ok |-> FALSE] stands for json.JSONDecodeError
json_loads(s) ==
  LET r == ParseValue(s, SkipWS(s, 1)) IN
  IF r.ok /\ SkipWS(s, r.p) = Len(s) + 1 THEN r ELSE Fail

(* ---------------------------------------------------------------------- *)
(* re.search for the three extraction patterns                             *)
(* ---------------------------------------------------------------------- *)
NoMatch == [found |-> FALSE, b |-> 0, e |-> 0]
Match(b, e) == [found |-> TRUE, b |-> b, e |-> e]

\* (?:const|let|var)\s+reportData\s*=\s*{  matched at i: position of the brace, or 0
DeclOpen(s, i) ==
  IF At(s, i) \in {"const", "let", "var"} /\ At(s, i + 1) \in WS
  THEN LET r == SkipWS(s, i + 1) IN
       IF At(s, r) = "reportData"
       THEN LET q == SkipWS(s, r + 1) IN
            IF At(s, q) = "="
            THEN LET b == SkipWS(s, q + 1) IN IF At(s, b) = "{" THEN b ELSE 0
            ELSE 0
       ELSE 0
  ELSE 0

\* [\s\S]*?}\s*;  from the brace at b: position of the first closing brace that
\* is followed by optional whitespace and a semicolon, or 0
DeclClose(s, b) ==
  Least({j \in (b + 1)..Len(s) : s[j] = "}" /\ At(s, SkipWS(s, j + 1)) = ";"})

\* r'(?:const|let|var)\s+reportData\s*=\s*({[\s\S]*?})\s*;'  (group 1)
search_decl(s) ==
  LET i == Least({k \in 1..Len(s) : DeclOpen(s, k) # 0 /\ DeclClose(s, DeclOpen(s, k)) # 0}) IN
  IF i = 0 THEN NoMatch ELSE Match(DeclOpen(s, i), DeclClose(s, DeclOpen(s, i)))

\* {\s*["\']client["\']  matched at i: position after the closing quote, or 0
ClientOpen(s, i) ==
  IF At(s, i) = "{"
  THEN LET q == SkipWS(s, i + 1) IN
       IF At(s, q) \in {QUOTE, "'"} /\ At(s, q + 1) = "client" /\ At(s, q + 2) \in {QUOTE, "'"}
       THEN q + 3 ELSE 0
  ELSE 0

\* r'{\s*["\']client["\'][\s\S]*?}'  (group 0)
search_client(s) ==
  LET i == Least({k \in 1..Len(s) : ClientOpen(s, k) # 0
                     /\ \E j \in ClientOpen(s, k)..Len(s) : s[j] = "}"}) IN
  IF i = 0 THEN NoMatch
  ELSE Match(i, Least({j \in ClientOpen(s, i)..Len(s) : s[j] = "}"}))

\* r'{[^{}]*}'  (group 0)
search_bare(s) ==
  LET close(k) == Least({j \in (k + 1)..Len(s) : s[j] \in {"{", "}"}})
      i == Least({k \in 1..Len(s) : s[k] = "{" /\ close(k) # 0 /\ At(s, close(k)) = "}"}) IN
  IF i = 0 THEN NoMatch ELSE Match(i, close(i))

\* the ordered pattern list of extract_report_data
patterns == <<"decl", "client", "bare">>

re_search(pattern, s) ==
  CASE pattern = "decl" -> search_decl(s)
    [] pattern = "client" -> search_client(s)
    [] pattern = "bare" -> search_bare(s)

\* match.group(1) if match.lastindex else match.group(0)
js_object(s, m) == SubSeq(s, m.b, m.e)

(* ---------------------------------------------------------------------- *)
(* clean_json_string                                                       *)
(* ---------------------------------------------------------------------- *)
\* re.sub(r'/\*.*?\*/', '', s, flags=re.DOTALL), from position p on
RECURSIVE StripBlock(_, _)
StripBlock(s, p) ==
  LET close(i) == Least({k \in (i + 2)..Len(s) : s[k] = "*" /\ At(s, k + 1) = "/"})
      i == Least({k \in p..Len(s) : s[k] = "/" /\ At(s, k + 1) = "*" /\ close(k) # 0}) IN
  IF i = 0 THEN SubSeq(s, p, Len(s))
  ELSE SubSeq(s, p, i - 1) \o StripBlock(s, close(i) + 2)

\* re.sub(r'//.*?$', '', s, flags=re.MULTILINE), from position p on
RECURSIVE StripLine(_, _)
StripLine(s, p) ==
  LET i == Least({k \in p..Len(s) : s[k] = "/" /\ At(s, k + 1) = "/"}) IN
  IF i = 0 THEN SubSeq(s, p, Len(s))
  ELSE LET n == Least({k \in (i + 2)..Len(s) : s[k] = NL}) IN
       SubSeq(s, p, i - 1) \o (IF n = 0 THEN <<>> ELSE StripLine(s, n))

ProtectEscaped(s) == Rewrite("protect", s, 1, Len(s))
EscapeQuotes(s) == Rewrite("escape", s, 1, Len(s))
RestoreEscaped(s) == Rewrite("restore", s, 1, Len(s))

\* ([{,]\s*)(\w+)\s*:  matched at i: position of the colon, or 0
PropertyColon(s, i) ==
  LET w == SkipWS(s, i + 1)
      c == SkipWS(s, w + 1) IN
  IF s[i] \in {"{", ","} /\ w <= Len(s) /\ IsWord(s[w]) /\ At(s, c) = ":" THEN c ELSE 0

\* re.sub(r'([{,]\s*)(\w+)\s*:', lambda m: f'{m.group(1)}"{m.group(2)}":', s), from p on
RECURSIVE FixPropertyNames(_, _)
FixPropertyNames(s, p) ==
  LET i == Least({k \in p..Len(s) : PropertyColon(s, k) # 0}) IN
  IF i = 0 THEN SubSeq(s, p, Len(s))
  ELSE LET w == SkipWS(s, i + 1) IN
       SubSeq(s, p, w - 1) \o <<QUOTE, s[w], QUOTE, ":">> \o FixPropertyNames(s, PropertyColon(s, i) + 1)

\* re.sub(r',\s*([}\]])', r'\1', s), from position p on
RECURSIVE RemoveTrailingCommas(_, _)
RemoveTrailingCommas(s, p) ==
  LET i == Least({k \in p..Len(s) : s[k] = "," /\ At(s, SkipWS(s, k + 1)) \in {"}", "]"}}) IN
  IF i = 0 THEN SubSeq(s, p, Len(s))
  ELSE SubSeq(s, p, i - 1) \o RemoveTrailingCommas(s, SkipWS(s, i + 1))

\* the text handed to the decoder (lines 285-297)
cleaned(js_str) ==
  LET c1 == StripBlock(js_str, 1)
      c2 == StripLine(c1, 1)
      c3 == RestoreEscaped(EscapeQuotes(ProtectEscaped(c2)))
      c4 == FixPropertyNames(c3, 1)
  IN RemoveTrailingCommas(c4, 1)

\* line 302: json.loads(decoded_str), None on JSONDecodeError (lines 304-307)
LoadsOrNone(r) == IF r.ok THEN r.v ELSE PyNone

\* lines 301-302, given the result of decoding temp_json as a string literal
DecodeTwice(decoded_str) ==
  IF ~decoded_str.ok THEN PyNone ELSE LoadsOrNone(json_loads(decoded_str.v.s))

\* lines 282-307
clean_json_string(js_str) == DecodeTwice(json_loads(<<QUOTE>> \o cleaned(js_str) \o <<QUOTE>>))

(* ---------------------------------------------------------------------- *)
(* validate_report_data                                                    *)
(* ---------------------------------------------------------------------- *)
\* lines 310-321, in order; the declared type of each field
required_fields ==
  << [f |-> "client", ty |-> "str"],
     [f |-> "businessoverview", ty |-> "str"],
     [f |-> "instagramSummary", ty |-> "str"],
     [f |-> "facebookSummary", ty |-> "str"],
     [f |-> "instagramScore", ty |-> "number"],
     [f |-> "facebookScore", ty |-> "number"],
     [f |-> "overallScore", ty |-> "number"],
     [f |-> "businesssummary", ty |-> "str"],
     [f |-> "insights", ty |-> "list"],
     [f |-> "tips", ty |-> "list"] >>

\* isinstance(v, field_type); bool is a subclass of int
isinstance(v, ty) ==
  CASE ty = "str" -> v.t = "str"
    [] ty = "number" -> v.t \in {"int", "float", "bool"}
    [] ty = "list" -> v.t = "list"

\* `field in data` : "yes", "no", or "TypeError" when data is not a container
Contains(data, f) ==
  CASE data.t = "dict" -> IF HasKey(data, <<f>>) THEN "yes" ELSE "no"
    [] data.t = "list" -> IF \E i \in 1..Len(data.items) : data.items[i] = PyStr(<<f>>)
                          THEN "yes" ELSE "no"
    [] data.t = "str" -> IF \E i \in 1..Len(data.s) : data.s[i] = f THEN "yes" ELSE "no"
    [] OTHER -> "TypeError"

\* lines 323-330
RECURSIVE CheckFields(_, _)
CheckFields(data, i) ==
  IF i > Len(required_fields) THEN "True"
  ELSE LET c == Contains(data, required_fields[i].f) IN
       IF c = "TypeError" THEN "TypeError"
       ELSE IF c = "no" THEN "False"
       ELSE IF data.t # "dict" THEN "TypeError"
       ELSE IF ~isinstance(Get(data, <<required_fields[i].f>>), required_fields[i].ty) THEN "False"
       ELSE CheckFields(data, i + 1)

\* lo <= v <= hi for a Python number v (True is 1, False is 0, NaN compares false)
Between(lo, v, hi) ==
  CASE v.t = "bool" -> LET n == IF v.s[1] = "true" THEN 1 ELSE 0 IN lo <= n /\ n <= hi
    [] v.s[1] \in NanLex -> FALSE
    [] OTHER -> lo * 10 <= Tenths[v.s[1]] /\ Tenths[v.s[1]] <= hi * 10

ScoresOK_instagramOnly(data) == Between(60, Get(data, <<"instagramScore">>), 100)

\* lines 333-336
ScoresOK(data) ==
  \A f \in {"instagramScore", "facebookScore"} : Between(60, Get(data, <<f>>), 100)

\* lines 338-340
OverallOK(data) == Between(0, Get(data, <<"overallScore">>), 100)

WebsiteScoreCheck_required(data) ==
  IF ~HasKey(data, <<"websiteScore">>) THEN "bad"
  ELSE LET w == Get(data, <<"websiteScore">>) IN
       IF w.t = "None" THEN "ok"
       ELSE IF w.t \notin {"int", "float", "bool"} THEN "TypeError"
       ELSE IF Between(60, w, 100) THEN "ok" ELSE "bad"

\* lines 342-344: "ok", "bad", or "TypeError" when the value cannot be compared with 60
WebsiteScoreCheck(data) ==
  IF ~HasKey(data, <<"websiteScore">>) THEN "ok"
  ELSE LET w == Get(data, <<"websiteScore">>) IN
       IF w.t = "None" THEN "ok"
       ELSE IF w.t \notin {"int", "float", "bool"} THEN "TypeError"
       ELSE IF Between(60, w, 100) THEN "ok" ELSE "bad"

\* lines 347-350
ListsOK(data) ==
  \A f \in {"insights", "tips"} : ~(Len(Get(data, <<f>>).items) < 3)

\* "True", "False", or "TypeError" when the call raises
validate_report_data(data) ==
  LET c == CheckFields(data, 1) IN
  IF c # "True" THEN c
  ELSE IF ~ScoresOK(data) THEN "False"
  ELSE IF ~OverallOK(data) THEN "False"
  ELSE IF WebsiteScoreCheck(data) = "TypeError" THEN "TypeError"
  ELSE IF WebsiteScoreCheck(data) = "bad" THEN "False"
  ELSE IF ~ListsOK(data) THEN "False"
  ELSE "True"

(* ---------------------------------------------------------------------- *)
(* extract_report_data                                                     *)
(* ---------------------------------------------------------------------- *)
\* bool(v)
Truthy(v) ==
  CASE v.t = "None" -> FALSE
    [] v.t \in {"dict", "list"} -> v.items # <<>>
    [] v.t = "str" -> v.s # <<>>
    [] v.t = "bool" -> v.s[1] = "true"
    [] OTHER -> v.s[1] \in NanLex \/ Tenths[v.s[1]] # 0

\* line 271: what the loop does with a cleaned candidate
candidate_outcome(report_data) ==
  IF ~Truthy(report_data) THEN "next"
  ELSE LET v == validate_report_data(report_data) IN
       IF v = "True" THEN "return" ELSE IF v = "False" THEN "next" ELSE "raise"

\* the result of a call: the value returned, the matchers consulted in order,
\* and whether the outer `except Exception` (line 278) produced it
Returned(ret, consulted, caught) == [ret |-> ret, consulted |-> consulted, caught |-> caught]

RECURSIVE try_patterns(_, _, _)

\* lines 271-272, given the outcome for the cleaned candidate
Decide(gemini_response, i, seen, report_data, o) ==
  IF o = "return" THEN Returned(report_data, seen, FALSE)
  ELSE IF o = "raise" THEN Returned(PyNone, seen, TRUE)
  ELSE try_patterns(gemini_response, i + 1, seen)

\* lines 270-272, given the cleaned candidate
TryCandidate(gemini_response, i, seen, report_data) ==
  Decide(gemini_response, i, seen, report_data, candidate_outcome(report_data))

\* lines 265-272, given the result of re.search
TryMatch(gemini_response, i, seen, m) ==
  IF ~m.found THEN try_patterns(gemini_response, i + 1, seen)
  ELSE TryCandidate(gemini_response, i, seen, clean_json_string(js_object(gemini_response, m)))

\* lines 263-276
try_patterns(gemini_response, i, consulted) ==
  IF i > Len(patterns) THEN Returned(PyNone, consulted, FALSE)
  ELSE TryMatch(gemini_response, i, Append(consulted, patterns[i]),
                re_search(patterns[i], gemini_response))

direct_outcome_unchecked(direct_parse) == "return"

\* lines 250-254: what the function does with the whole reply parsed as JSON
direct_outcome(direct_parse) ==
  LET v == validate_report_data(direct_parse) IN
  IF v = "True" THEN "return" ELSE IF v = "False" THEN "next" ELSE "raise"

\* lines 251-276, given the outcome of the direct parse
AfterDirect(gemini_response, direct_parse, o) ==
  IF o = "return" THEN Returned(direct_parse.v, <<"direct">>, FALSE)
  ELSE IF o = "raise" THEN Returned(PyNone, <<"direct">>, TRUE)
  ELSE try_patterns(gemini_response, 1, <<"direct">>)

\* lines 250-254, given the result of json.loads
TryDirect(gemini_response, direct_parse) ==
  AfterDirect(gemini_response, direct_parse,
              IF direct_parse.ok THEN direct_outcome(direct_parse.v) ELSE "next")

\* lines 244-280
extract_trace(gemini_response) == TryDirect(gemini_response, json_loads(gemini_response))

extract_report_data(gemini_response) == extract_trace(gemini_response).ret

(* ---------------------------------------------------------------------- *)
(* Replies of the generative model: the texts the pipeline is applied to   *)
(* ---------------------------------------------------------------------- *)
\* longest list rendered in a reply
MaxItems == 4
\* longest run of prose words rendered in a reply
MaxProse == 2

Str(words) == <<QUOTE>> \o words \o <<QUOTE>>

RECURSIVE ListOf(_)
ListOf(n) ==
  IF n = 0 THEN <<>>
  ELSE (IF n = 1 THEN <<>> ELSE ListOf(n - 1) \o <<",", SP>>) \o Str(<<IF n % 2 = 1 THEN "a" ELSE "b">>)
List(n) == <<"[">> \o ListOf(n) \o <<"]">>

F(k, v) == [k |-> k, v |-> v]

\* the report of the prompt (lines 213-233) with websiteScore omitted
BaseFields ==
  << F("client", Str(<<"Acme">>)),
     F("businessoverview", Str(<<"desc">>)),
     F("instagramSummary", Str(<<"Not", SP, "found">>)),
     F("facebookSummary", Str(<<"ok">>)),
     F("instagramScore", <<"60">>),
     F("facebookScore", <<"80">>),
     F("overallScore", <<"70">>),
     F("businesssummary", Str(<<"sum">>)),
     F("insights", List(3)),
     F("tips", List(3)) >>

\* a second, different, valid report
OtherFields == [BaseFields EXCEPT ![1] = F("client", Str(<<"Beta">>))]

StrFields == {1, 2, 3, 4, 8}
NumFields == {5, 6, 7}
ListFields == {9, 10}

\* string values that exercise the repairs of clean_json_string
SpecialStrs ==
  { Str(<<"a", SP, BSLASH, QUOTE, "q", BSLASH, QUOTE>>),
    Str(<<"http", ":", "/", "/", "x">>),
    Str(<<"a", ",", SP, "b", ":", SP, "c">>),
    Str(<<"a", SP, "{", "b", "}", ";">>),
    Str(<<"a", BSLASH, "n", SP, "b">>) }

StrAlts == {Str(<<>>), <<"60">>, <<"null">>, List(3)} \cup SpecialStrs
NumAlts == { <<"0">>, <<"59">>, <<"100">>, <<"101">>, <<"59.5">>, <<"60.5">>, <<"100.5">>,
             <<"-1">>, <<"true">>, <<"false">>, <<"null">>, <<"NaN">>, Str(<<"60">>) }
ListAlts == {List(n) : n \in 0..MaxItems} \cup {Str(<<"a">>), <<"null">>}
WebsiteAlts == { <<"null">>, <<"59">>, <<"60">>, <<"100">>, <<"101">>, <<"60.5">>, <<"true">>,
                 <<"NaN">>, Str(<<"none">>), List(0) }

WithWebsite(fields, v) == SubSeq(fields, 1, 6) \o <<F("websiteScore", v)>> \o SubSeq(fields, 7, Len(fields))
Without(fields, i) == SubSeq(fields, 1, i - 1) \o SubSeq(fields, i + 1, Len(fields))

Variants ==
  {BaseFields}
  \cup {[BaseFields EXCEPT ![i].v = a] : i \in StrFields, a \in StrAlts}
  \cup {[BaseFields EXCEPT ![i].v = a] : i \in NumFields, a \in NumAlts}
  \cup {[BaseFields EXCEPT ![i].v = a] : i \in ListFields, a \in ListAlts}
  \cup {WithWebsite(BaseFields, a) : a \in WebsiteAlts}
  \cup {Without(BaseFields, i) : i \in 1..Len(BaseFields)}
  \cup {BaseFields \o <<F("client", Str(<<"Last">>))>>}

\* the renderings of an object
Styles == {"json", "jsonml", "jsonc", "js", "jsfull"}

Junk == <<"{", "x", "}">>

Key(k, style) == IF style \in {"js", "jsfull"} THEN <<k>> ELSE Str(<<k>>)
Indent(style) == IF style \in {"jsonml", "jsfull"} THEN <<NL, SP, SP>> ELSE <<>>
Sep(style) == IF style \in {"jsonml", "jsfull"} THEN <<",">> ELSE <<",", SP>>
\* what follows the first field
Note(style) ==
  CASE style = "jsonc" -> <<"/", "*", SP, "name", SP, "*", "/", SP>>
    [] style = "jsfull" -> <<SP, "/", "/", SP, "name">>
    [] OTHER -> <<>>
\* what precedes the closing brace
Closing(style) ==
  CASE style = "jsonml" -> <<NL>>
    [] style = "jsonc" -> <<",">>
    [] style = "jsfull" -> <<",", NL>>
    [] OTHER -> <<>>

RECURSIVE RenderFields(_, _, _)
RenderFields(fields, i, style) ==
  IF i > Len(fields) THEN <<>>
  ELSE Indent(style) \o Key(fields[i].k, style) \o <<":", SP>> \o fields[i].v
       \o (IF i < Len(fields) THEN Sep(style) ELSE <<>>)
       \o (IF i = 1 THEN Note(style) ELSE <<>>)
       \o RenderFields(fields, i + 1, style)

Render(fields, style) == <<"{">> \o RenderFields(fields, 1, style) \o Closing(style) \o <<"}">>

RECURSIVE Prose(_)
Prose(n) == IF n = 0 THEN <<>> ELSE Prose(n - 1) \o <<IF n % 2 = 1 THEN "Here" ELSE "report", SP>>

\* what surrounds the object in the reply
Wraps == {"none", "const", "let", "var", "prose", "array", "jsonstr", "quoted"}
Wrap(body, wrap) ==
  CASE wrap = "none" -> body
    [] wrap \in {"const", "let", "var"} -> <<wrap, SP, "reportData", SP, "=", SP>> \o body \o <<";">>
    [] wrap = "prose" -> Prose(MaxProse) \o body
    [] wrap = "array" -> <<"[">> \o body \o <<"]">>
    [] wrap = "jsonstr" -> Str(EscapeQuotes(body))
    [] wrap = "quoted" ->
         Str(EscapeQuotes(<<"const", SP, "reportData", SP, "=", SP>> \o body \o <<";", SP>> \o Junk))

\* a second brace span next to the wrapped object
Extras == {"none", "otherBefore", "otherAfter", "junkBefore", "junkAfter"}
WithExtra(t, extra) ==
  CASE extra = "none" -> t
    [] extra = "otherBefore" -> Render(OtherFields, "json") \o <<SP>> \o t
    [] extra = "otherAfter" -> t \o <<SP>> \o Render(OtherFields, "json")
    [] extra = "junkBefore" -> Junk \o <<SP>> \o t
    [] extra = "junkAfter" -> t \o <<SP>> \o Junk

Reply(fields, style, wrap, extra) == WithExtra(Wrap(Render(fields, style), wrap), extra)

\* the scenario of the prompt's output format: declaration, bare keys, a line
\* comment, a trailing comma, several lines
ScenarioFields ==
  << BaseFields[1], BaseFields[2], BaseFields[8], BaseFields[3], BaseFields[4],
     BaseFields[5], BaseFields[6], BaseFields[7], BaseFields[9], BaseFields[10] >>
ScenarioText == Wrap(Render(ScenarioFields, "jsfull"), "const")

\* replies without a brace-delimited region
Scalars ==
  { <<>>, <<"60">>, <<"0">>, <<"null">>, <<"true">>, <<"NaN">>,
    Str(<<"client">>), Str(<<"abc">>), <<"[", QUOTE, "client", QUOTE, "]">>, <<"[", "60", "]">>,
    <<"}", SP, "x", SP, "{">>, <<"{", SP, "client">>, <<"x", "}", ";">> }
  \cup {Prose(n) : n \in 1..MaxProse}

\* records used where the wrapping, not the record, is varied
Plain == { BaseFields,
           [BaseFields EXCEPT ![5].v = <<"59">>],
           [BaseFields EXCEPT ![7].v = <<"true">>],
           WithWebsite(BaseFields, Str(<<"none">>)),
           WithWebsite(BaseFields, <<"null">>),
           Without(BaseFields, 1) }

Replies ==
  Scalars \cup {ScenarioText}
  \cup {Reply(f, "json", w, "none") : f \in Variants, w \in {"none", "const", "array", "prose"}}
  \cup {Reply(f, st, w, "none") : f \in {BaseFields} \cup {[BaseFields EXCEPT ![1].v = a] : a \in SpecialStrs},
                                   st \in Styles, w \in {"none", "const", "let", "var", "prose"}}
  \cup {Reply(f, "json", w, e) : f \in Plain, w \in Wraps, e \in Extras}

(* ---------------------------------------------------------------------- *)
(* The /submit handler                                                     *)
(* ---------------------------------------------------------------------- *)
\* lines 43-48
allowed_origins ==
  { "https://audit.createlo.in", "http://localhost:3000",
    "http://localhost:3000/audit-form", "http://localhost:3000/business-summary" }

\* urlparse(url): the scheme is what precedes the first colon when it is made
\* of scheme characters; the netloc is what follows "//" up to the next slash
urlparse(url) ==
  LET c == Least({k \in 1..Len(url) : url[k] = ":"})
      hasScheme == c > 1 /\ \A k \in 1..(c - 1) : IsWord(url[k])
      rest == IF hasScheme THEN SubSeq(url, c + 1, Len(url)) ELSE url
      slash == Least({k \in 3..Len(rest) : rest[k] = "/"})
  IN [ scheme |-> IF hasScheme THEN SubSeq(url, 1, c - 1) ELSE <<>>,
       netloc |-> IF At(rest, 1) = "/" /\ At(rest, 2) = "/"
                  THEN SubSeq(rest, 3, IF slash = 0 THEN Len(rest) ELSE slash - 1)
                  ELSE <<>> ]

\* lines 161-169
is_valid_url(url) ==
  IF url = <<>> THEN TRUE
  ELSE urlparse(url).scheme # <<>> /\ urlparse(url).netloc # <<>>

\* data.get(field, default) on a dict
DictGet(data, f, default) == IF HasKey(data, <<f>>) THEN Get(data, <<f>>) ELSE default

\* the names bound when line 105 is evaluated: the locals assigned at lines
\* 77-92 and the names of the module
SubmitLocals == {"data", "required_fields", "missing_fields", "business_url"}
ModuleNames ==
  { "re", "os", "Flask", "request", "jsonify", "session", "CORS", "requests", "json",
    "timedelta", "logging", "urlparse", "firebase_admin", "credentials", "firestore",
    "uuid", "logger", "firebase_json_str", "app", "allowed_origins", "GEMINI_API_KEY",
    "home", "submit", "is_valid_url", "build_createlo_prompt", "extract_report_data",
    "clean_json_string", "validate_report_data", "send_to_gemini",
    "_build_cors_preflight_response", "_corsify_actual_response" }
\* the names read by the argument list of lines 105-113, in order
PromptArgNames ==
  <<"build_createlo_prompt", "data", "business_url", "instagram_url", "facebook_url", "data">>
\* evaluating the call raises NameError
PromptNameError ==
  \E i \in 1..Len(PromptArgNames) : PromptArgNames[i] \notin SubmitLocals \cup ModuleNames

\* lines 410-415: the strings send_to_gemini returns when the call fails
ApiErrorText == <<"API", SP, "Error", ":", SP, "timeout">>
ProcessingErrorText == <<"Processing", SP, "Error", ":", SP, "No", SP, "candidates", SP, "in", SP, "response">>

\* send_to_gemini(prompt), given what the API does
send_to_gemini(up) ==
  CASE up.kind = "text" -> up.text
    [] up.kind = "request_failed" -> ApiErrorText
    [] up.kind = "bad_structure" -> ProcessingErrorText

Response(code, status, data) == [code |-> code, status |-> status, data |-> data]
Handled(resp, sess, stored) == [response |-> resp, session |-> sess, stored |-> stored]
InternalError == Response(500, "Internal server error", PyNone)

\* lines 127-152, given the result of extract_report_data
AfterExtract(report, dbOk, sess, stored) ==
  IF ~Truthy(report)
  THEN Handled(Response(500, "Could not generate audit report", PyNone), sess, stored)
  ELSE Handled(Response(200, "success", report), report,
               IF dbOk THEN Append(stored, report) ELSE stored)

\* lines 122-152, given the text send_to_gemini returned
AfterReply(reply, dbOk, sess, stored) ==
  IF At(reply, 1) = "Error"
  THEN Handled(Response(502, "gemini error", PyNone), sess, stored)
  ELSE AfterExtract(extract_report_data(reply), dbOk, sess, stored)

\* lines 115-152: the handler after the prompt is built
AfterPrompt(req, key, up, dbOk, sess, stored) ==
  IF ~key THEN Handled(Response(503, "API service unavailable", PyNone), sess, stored)
  ELSE AfterReply(send_to_gemini(up), dbOk, sess, stored)

\* lines 73-159: the POST handler
HandleSubmit(req, key, up, dbOk, sess, stored) ==
  IF ~req.is_json THEN Handled(Response(400, "Request must be JSON", PyNone), sess, stored)
  ELSE IF ~Truthy(req.data) THEN Handled(Response(400, "No data received", PyNone), sess, stored)
  ELSE IF req.data.t # "dict" THEN Handled(InternalError, sess, stored)
  ELSE IF \E f \in {"email", "contactNumber"} : ~Truthy(DictGet(req.data, f, PyNone))
       THEN Handled(Response(400, "Missing required fields", PyNone), sess, stored)
  ELSE LET business_url == DictGet(req.data, "website", PyStr(<<>>)) IN
       IF Truthy(business_url) /\ ~is_valid_url(business_url.s)
       THEN Handled(Response(400, "Invalid business URL", PyNone), sess, stored)
       ELSE IF PromptNameError THEN Handled(InternalError, sess, stored)
       ELSE AfterPrompt(req, key, up, dbOk, sess, stored)

\* lines 417-426
PreflightResponse(req) ==
  IF req.origin \notin allowed_origins THEN Response(403, "Origin not allowed", PyNone)
  ELSE Response(200, "CORS preflight", PyNone)

\* request bodies
Urls ==
  { <<>>, <<"https", ":", "/", "/", "acme">>, <<"https", ":", "/", "/", "acme", "/", "shop">>,
    <<"acme">>, <<"https", ":", "acme">>, <<"/", "/", "acme">>, <<"https", ":", "/", "/", "/", "shop">> }
Emails == {<<>>, <<"a@b.c">>}
Phones == {<<>>, <<"555">>}

Opt(k, present, v) == IF present THEN <<[k |-> <<k>>, v |-> PyStr(v)]>> ELSE <<>>
Form(e, he, c, hc, w, hw) ==
  PyDict(Opt("email", he, e) \o Opt("contactNumber", hc, c) \o Opt("website", hw, w))

Bodies ==
  {Form(e, he, c, hc, w, hw) : e \in Emails, he \in BOOLEAN, c \in Phones, hc \in BOOLEAN,
                                w \in Urls, hw \in BOOLEAN}
  \cup {PyNone, PyList(<<PyStr(<<"x">>)>>)}

Requests ==
  [ method : {"POST", "OPTIONS"},
    origin : {"https://audit.createlo.in", "https://elsewhere.example"},
    is_json : BOOLEAN,
    data : Bodies ]

Upstreams ==
  { [kind |-> "text", text |-> Render(BaseFields, "json")],
    [kind |-> "text", text |-> Prose(1)],
    [kind |-> "request_failed", text |-> <<>>],
    [kind |-> "bad_structure", text |-> <<>>] }

(* ---------------------------------------------------------------------- *)
(* State                                                                   *)
(* ---------------------------------------------------------------------- *)
VARIABLES
  gemini_response,  \* the text a function of the pipeline is applied to
  phase,            \* "input", then the function that was called
  report_data,      \* the value the call returned
  consulted,        \* extract_report_data: the matchers consulted, in order
  caught,           \* extract_report_data: the result came from `except Exception`
  verdict,          \* validate_report_data: "True", "False" or "TypeError"
  request,          \* the HTTP request being handled
  env,              \* GEMINI_API_KEY set, what the API answers, whether db.add works
  response,         \* the HTTP response
  session,          \* session['report_data']
  stored            \* the documents of audit_submissions

pipeline == <<gemini_response, phase, report_data, consulted, caught, verdict>>
web == <<request, env, response, session, stored>>
vars == <<gemini_response, phase, report_data, consulted, caught, verdict,
          request, env, response, session, stored>>

NoRequest == [method |-> "none", origin |-> "", is_json |-> FALSE, data |-> PyNone]
NoEnv == [key |-> FALSE, upstream |-> [kind |-> "none", text |-> <<>>], dbOk |-> FALSE]
NoResponse == Response(0, "", PyNone)

Init ==
  /\ gemini_response \in Replies
  /\ phase = "input"
  /\ report_data = PyNone
  /\ consulted = <<>>
  /\ caught = FALSE
  /\ verdict = "none"
  /\ request = NoRequest
  /\ env = NoEnv
  /\ response = NoResponse
  /\ session = PyNone
  /\ stored = <<>>

\* extract_report_data(gemini_response)
Extract ==
  /\ phase = "input"
  /\ LET r == extract_trace(gemini_response) IN
       /\ report_data' = r.ret
       /\ consulted' = r.consulted
       /\ caught' = r.caught
  /\ phase' = "extracted"
  /\ UNCHANGED <<gemini_response, verdict>>
  /\ UNCHANGED web

\* clean_json_string(gemini_response)
Clean ==
  /\ phase = "input"
  /\ report_data' = clean_json_string(gemini_response)
  /\ phase' = "cleaned"
  /\ UNCHANGED <<gemini_response, consulted, caught, verdict>>
  /\ UNCHANGED web

\* validate_report_data(json.loads(gemini_response))
Validate ==
  /\ phase = "input"
  /\ json_loads(gemini_response).ok
  /\ report_data' = json_loads(gemini_response).v
  /\ verdict' = validate_report_data(json_loads(gemini_response).v)
  /\ phase' = "validated"
  /\ UNCHANGED <<gemini_response, consulted, caught>>
  /\ UNCHANGED web

Next == Extract \/ Clean \/ Validate

Spec == Init /\ [][Next]_vars

\* a request arrives at /submit
SubmitInit ==
  /\ gemini_response = <<>>
  /\ phase = "idle"
  /\ report_data = PyNone
  /\ consulted = <<>>
  /\ caught = FALSE
  /\ verdict = "none"
  /\ request \in Requests
  /\ env \in [key : BOOLEAN, upstream : Upstreams, dbOk : BOOLEAN]
  /\ response = NoResponse
  /\ session = PyNone
  /\ stored = <<>>

\* submit() for a POST
submit ==
  /\ request.method = "POST"
  /\ response = NoResponse
  /\ LET h == HandleSubmit(request, env.key, env.upstream, env.dbOk, session, stored) IN
       /\ response' = h.response
       /\ session' = h.session
       /\ stored' = h.stored
  /\ UNCHANGED <<request, env>>
  /\ UNCHANGED pipeline

\* submit() for an OPTIONS request (lines 70-71)
preflight ==
  /\ request.method = "OPTIONS"
  /\ response = NoResponse
  /\ response' = PreflightResponse(request)
  /\ UNCHANGED <<request, env, session, stored>>
  /\ UNCHANGED pipeline

SubmitNext == submit \/ preflight

SubmitSpec == SubmitInit /\ [][SubmitNext]_vars

(* ---------------------------------------------------------------------- *)
(* Properties of the pipeline                                              *)
(* ---------------------------------------------------------------------- *)
Field(d, f) == Get(d, <<f>>)
Has(d, f) == d.t = "dict" /\ HasKey(d, <<f>>)
IsNumber(v) == v.t \in {"int", "float"}

\* lo <= v <= hi, in tenths, as Python compares the value
Within(v, lo, hi) ==
  /\ v.t \in {"int", "float", "bool"}
  /\ v.s[1] \notin NanLex
  /\ LET n == IF v.t = "bool" THEN (IF v.s[1] = "true" THEN 10 ELSE 0) ELSE Tenths[v.s[1]] IN
     lo <= n /\ n <= hi

RangesHold(d) ==
  /\ Has(d, "instagramScore") /\ Within(Field(d, "instagramScore"), 600, 1000)
  /\ Has(d, "facebookScore") /\ Within(Field(d, "facebookScore"), 600, 1000)
  /\ Has(d, "overallScore") /\ Within(Field(d, "overallScore"), 0, 1000)
  /\ (Has(d, "websiteScore") =>
        \/ Field(d, "websiteScore").t = "None"
        \/ Within(Field(d, "websiteScore"), 600, 1000))

Accepted ==
  \/ phase = "extracted" /\ report_data # PyNone
  \/ phase = "validated" /\ verdict = "True"

\* C1: every record returned by extract_report_data, and every value for which
\* validate_report_data returns True, has instagramScore and facebookScore in
\* [60,100], overallScore in [0,100], and websiteScore absent, null or in [60,100].
C1_RangeInvariants == Accepted => RangesHold(report_data)

C1_Witness ==
  /\ phase = "extracted" /\ report_data # PyNone
  /\ Has(report_data, "websiteScore") /\ Field(report_data, "websiteScore").t = "float"
  /\ consulted = <<"direct", "decl">>

TextFields == {"client", "businessoverview", "instagramSummary", "facebookSummary", "businesssummary"}
NumericFields == {"instagramScore", "facebookScore", "overallScore"}
SequenceFields == {"insights", "tips"}

TypesConform(d) ==
  /\ d.t = "dict"
  /\ \A f \in TextFields : Has(d, f) /\ Field(d, f).t = "str"
  /\ \A f \in NumericFields : Has(d, f) /\ IsNumber(Field(d, f))
  /\ \A f \in SequenceFields : Has(d, f) /\ Field(d, f).t = "list"

\* C2: validate_report_data returns True only for a value whose text fields hold
\* strings, whose numeric fields hold JSON numbers (not booleans, strings or
\* null), and whose insights and tips hold sequences.
C2_TypeConformance == phase = "validated" /\ verdict = "True" => TypesConform(report_data)

AllMatchers == <<"direct">> \o patterns

\* C3: a failed candidate makes extract_report_data advance to the next matcher;
\* it returns None only after the direct parse and all three patterns were tried.
C3_AdvanceOnFailure ==
  phase = "extracted" /\ report_data = PyNone => consulted = AllMatchers

\* the record matcher m yields for the text, None when its candidate is missing
\* or does not normalize and validate
MatcherRecord(text, m) ==
  IF m = "direct"
  THEN LET d == json_loads(text) IN
       IF d.ok /\ validate_report_data(d.v) = "True" THEN d.v ELSE PyNone
  ELSE LET r == re_search(m, text) IN
       IF ~r.found THEN PyNone
       ELSE LET c == clean_json_string(js_object(text, r)) IN
            IF Truthy(c) /\ validate_report_data(c) = "True" THEN c ELSE PyNone

Earliest(text) ==
  Least({i \in 1..Len(AllMatchers) : MatcherRecord(text, AllMatchers[i]) # PyNone})

\* a brace span without nested braces that lies outside the declaration's block
HasBareSpan(text) ==
  LET m == search_decl(text) IN
  \E i \in 1..Len(text) : \E j \in (i + 1)..Len(text) :
    /\ text[i] = "{" /\ text[j] = "}"
    /\ \A k \in (i + 1)..(j - 1) : text[k] \notin {"{", "}"}
    /\ (j < m.b \/ i > m.e)

\* C4: the matchers are tried in the order direct, declaration, client-anchored,
\* bare-brace; a returned record is the one of the earliest matcher whose
\* candidate normalizes and validates; and a text holding a valid declaration
\* block and a bare brace span yields the declaration's record.
C4_MatcherPriority ==
  phase = "extracted" =>
    /\ report_data # PyNone =>
         /\ Earliest(gemini_response) # 0
         /\ report_data = MatcherRecord(gemini_response, AllMatchers[Earliest(gemini_response)])
         /\ consulted = SubSeq(AllMatchers, 1, Earliest(gemini_response))
    /\ ( /\ MatcherRecord(gemini_response, "decl") # PyNone
         /\ MatcherRecord(gemini_response, "direct") = PyNone
         /\ HasBareSpan(gemini_response) )
       => report_data = MatcherRecord(gemini_response, "decl")

BraceFree(text) ==
  ~\E i \in 1..Len(text) : \E j \in (i + 1)..Len(text) : text[i] = "{" /\ text[j] = "}"

\* C5: a text without a brace-delimited region yields None, and every record
\* returned is one validate_report_data accepts.
C5_TotalFailure ==
  phase = "extracted" =>
    /\ BraceFree(gemini_response) => report_data = PyNone
    /\ report_data # PyNone => validate_report_data(report_data) = "True"

C5_Witness ==
  /\ phase = "extracted"
  /\ BraceFree(gemini_response)
  /\ json_loads(gemini_response).ok
  /\ \E i \in 1..Len(gemini_response) : gemini_response[i] = "client"
  /\ report_data = PyNone

\* replies of the form of the prompt's output format
ScenarioForm ==
  {Wrap(Render(f, "jsfull"), w) : f \in {ScenarioFields, BaseFields}, w \in {"const", "let", "var"}}

\* C6: a declaration whose object spans several lines, uses bare keys, carries a
\* line comment and ends with a trailing comma is repaired and yields a report
\* with client "Acme" and instagramScore 60.
C6_ScenarioRepair ==
  phase = "extracted" /\ gemini_response \in ScenarioForm =>
    /\ Has(report_data, "client") /\ Field(report_data, "client") = PyStr(<<"Acme">>)
    /\ Has(report_data, "instagramScore") /\ Field(report_data, "instagramScore") = PyNum("60")

\* C7: clean_json_string applied to a strict JSON object document returns the
\* value of parsing the document directly.
C7_NormalizeStrictJson ==
  phase = "cleaned" /\ json_loads(gemini_response).ok /\ json_loads(gemini_response).v.t = "dict"
    => report_data = json_loads(gemini_response).v

\* C8: every accepted record has non-empty client, businessoverview and
\* businesssummary.
C8_NonEmptyText ==
  Accepted =>
    \A f \in {"client", "businessoverview", "businesssummary"} :
      Has(report_data, f) /\ Field(report_data, f) # PyStr(<<>>)

\* the schema of the report, as the round-trip property states it
SchemaConformant(d) ==
  /\ TypesConform(d)
  /\ Within(Field(d, "instagramScore"), 600, 1000)
  /\ Within(Field(d, "facebookScore"), 600, 1000)
  /\ Within(Field(d, "overallScore"), 0, 1000)
  /\ \A f \in SequenceFields : Len(Field(d, f).items) >= 3
  /\ (Has(d, "websiteScore") =>
        \/ Field(d, "websiteScore").t = "None"
        \/ IsNumber(Field(d, "websiteScore")) /\ Within(Field(d, "websiteScore"), 600, 1000))

CleanInput ==
  json_loads(gemini_response).ok /\ SchemaConformant(json_loads(gemini_response).v)

\* C9: a reply that as a whole is JSON for a schema-conformant object is returned
\* as parsed, and no pattern is consulted.
C9_RoundTrip ==
  phase = "extracted" /\ CleanInput =>
    /\ report_data = json_loads(gemini_response).v
    /\ consulted = <<"direct">>

C9_Witness ==
  /\ phase = "extracted" /\ CleanInput
  /\ ~Has(report_data, "websiteScore")
  /\ Len(Field(report_data, "tips").items) = 3
  /\ report_data = json_loads(gemini_response).v

(* ---------------------------------------------------------------------- *)
(* Properties of the handler                                               *)
(* ---------------------------------------------------------------------- *)
\* the request passes the validation of lines 74-94
ValidSubmit ==
  /\ request.method = "POST" /\ request.is_json /\ request.data.t = "dict"
  /\ \A f \in {"email", "contactNumber"} :
       HasKey(request.data, <<f>>) /\ Get(request.data, <<f>>).s # <<>>
  /\ HasKey(request.data, <<"website">>) =>
       \/ Get(request.data, <<"website">>).s = <<>>
       \/ LET u == Get(request.data, <<"website">>).s IN
          \E k \in 2..Len(u) : u[k] = ":" /\ At(u, k + 1) = "/" /\ At(u, k + 2) = "/"
                                /\ At(u, k + 3) \notin {"/", "<end>"}

ApiAnswered == env.upstream.kind = "text"
Extractable == ApiAnswered /\ extract_report_data(env.upstream.text) # PyNone

\* C10: a valid POST with the API key set, answered by a text from which a
\* record is extracted, is answered with status "success" carrying that record,
\* which is also stored in the session, whether or not the store write works;
\* an error status is produced only when the matching step failed.
C10_SubmitSuccess ==
  request.method = "POST" /\ response # NoResponse =>
    /\ ValidSubmit /\ env.key /\ Extractable =>
         /\ response = Response(200, "success", extract_report_data(env.upstream.text))
         /\ session = extract_report_data(env.upstream.text)
    /\ response.code = 400 => ~ValidSubmit
    /\ response.code = 503 => ~env.key
    /\ response.code = 502 => ~ApiAnswered
    /\ response.code = 500 => ~ValidSubmit \/ ~Extractable

====
